---- MODULE Spec2Model ----
(***************************************************************************)
(* A model of kegg_module.py (KEGG module records).                        *)
(*                                                                         *)
(*   Spec       the catalytic hierarchy (KeggEnzyme, Catalyst,             *)
(*              KeggReaction, KeggModule): assembly by add/remove/append   *)
(*              and the evaluations of the KeggModule.                     *)
(*   SpecEntity the same assembly below the module, and the evaluations    *)
(*              of a KeggEnzyme, a Catalyst and a KeggReaction.            *)
(*   SpecDef    KeggModule._parse_kegg_module_definition, one character    *)
(*              of the definition string per step.                         *)
(*   SpecParse  the generator parse(handle): one line of the handle per    *)
(*              step, a step of its own to resume after each yield, and    *)
(*              the record source (kegg_get) behind parse_reaction.        *)
(***************************************************************************)
EXTENDS Integers, Sequences, FiniteSets, TLC

VARIABLES
    \* ---- the catalytic hierarchy (Spec)
    orthologs,      \* KeggEnzyme.orthologs of every enzyme object
    enzymes,        \* Catalyst.enzymes of every catalyst object
    reactions,      \* KeggModule.reactions: the catalysts of each KeggReaction
    call,           \* the last method call: its receiver, argument and outcome
    \* ---- the definition scanner (SpecDef)
    definition,     \* KeggModule.definition, the string scanned
    pos,            \* number of characters consumed by the for loop
    bracket, current_KO, current_enzyme, step_enzymes, steps,
    outcome,        \* "running", then how the method ended
    \* ---- parse(handle) (SpecParse)
    handle,         \* the lines of the handle
    lineno,         \* number of lines consumed by the for loop
    source,         \* the calls of kegg_get for the last line, with answers
    record,         \* the KeggModule being filled
    state,          \* the section the continuation lines belong to
    yielded,        \* the records the generator has yielded so far
    printed,        \* what print() has written
    gen             \* "running", "suspended" at the yield, "exhausted",
                    \* "closed", or the exception that ended it

hvars == <<orthologs, enzymes, reactions, call>>
dvars == <<definition, pos, bracket, current_KO, current_enzyme, step_enzymes,
           steps, outcome>>
pvars == <<handle, lineno, source, record, state, yielded, printed, gen>>
vars == <<hvars, dvars, pvars>>

(***************************************************************************)
(* Bounds of the model.                                                    *)
(***************************************************************************)
NumKO == 2          \* ortholog identifiers
MaxReactions == 2   \* length of KeggModule.reactions

KO == 1..NumKO
\* The objects of the hierarchy spec: two KeggEnzyme and two Catalyst
\* objects, shared by reference as Python shares them.
EnzIds == {1, 2}
CatIds == {1, 2}

(***************************************************************************)
(* Python floats that arise here are quotients of small integers: a float  *)
(* is kept as the reduced fraction it rounds.                              *)
(***************************************************************************)
RECURSIVE GCD(_, _)
GCD(a, b) == IF b = 0 THEN a ELSE GCD(b, a % b)

Float(n, d) == LET g == GCD(n, d) IN [num |-> n \div g, den |-> d \div g]
Zero == Float(0, 1)
FloatGT(a, b) == a.num * b.den > b.num * a.den
FloatAdd(a, b) == Float(a.num * b.den + b.num * a.den, a.den * b.den)

ZeroDivisionError == "ZeroDivisionError"
KeyError == "KeyError"

\* how an expression or a call ends: with a value, or with an exception
Return(v) == [kind |-> "return", ret |-> v]
Raise(exc) == [kind |-> "raise", ret |-> exc]

\* x / n for a float x and an int n
FloatDivInt(x, n) ==
    IF n = 0 THEN Raise(ZeroDivisionError) ELSE Return(Float(x.num, x.den * n))

\* The orders in which a for loop can visit the members of S, each once.
RECURSIVE Orders(_)
Orders(S) ==
    IF S = {} THEN {<<>>}
    ELSE UNION {{<<x>> \o rest : rest \in Orders(S \ {x})} : x \in S}

\* The values ''.join(self.orthologs) can take for one KeggEnzyme: the
\* orthologs it holds, in the order the set gives them.  That order depends
\* on the string hashes and on the order of the additions.
JoinedOrthologs == UNION {Orders(T) : T \in SUBSET KO}

\* The number of entries a set of KeggEnzyme can hold for one object.
\* KeggEnzyme.__hash__ is taken from the accession and the joined
\* orthologs, so an object added again after its orthologs changed is
\* stored once more, unless the set holds it under its present hash
\* already: one entry at most for each value of the hash.
MaxStored == Cardinality(JoinedOrthologs)

\* How a set of KeggEnzyme can hold its member objects S: the number of
\* entries of each one.  "for i in self.enzymes" visits every entry once, in
\* the order of the stored hashes, which differ from one process to the
\* next.  The state keeps the member objects and not the hashes they are
\* stored under: every member has at least one entry and at most MaxStored.
Stored(S) ==
    {[e \in EnzIds |-> IF e \in S THEN times[e] ELSE 0] :
        times \in [S -> 1..MaxStored]}

\* the enzymes that have entries left to visit
ToVisit(left) == {e \in EnzIds : left[e] > 0}

(***************************************************************************)
(* KeggEnzyme                                                              *)
(***************************************************************************)
KeggEnzyme_present_NoEmptyCheck(orths, gene_list) == orths \subseteq gene_list

KeggEnzyme_present(orths, gene_list) ==
    IF Cardinality(orths) = 0 THEN FALSE
    ELSE orths \subseteq gene_list

KeggEnzyme_completeness_CountsMissing(orths, gene_list) ==
    LET orthos == Cardinality(orths) IN
    IF orthos = 0 THEN Zero
    ELSE Float(Cardinality(orths \ gene_list), orthos)

KeggEnzyme_completeness(orths, gene_list) ==
    LET orthos == Cardinality(orths) IN
    IF orthos = 0 THEN Zero
    ELSE LET diff == Cardinality(orths \ gene_list)
         IN  Float(orthos - diff, orthos)

\* what enzyme.present(gene_list) and enzyme.completeness(gene_list) return
\* for every KeggEnzyme
EnzymePresence(gene_list) ==
    [e \in EnzIds |-> KeggEnzyme_present(orthologs[e], gene_list)]

EnzymeCompleteness(gene_list) ==
    [e \in EnzIds |-> KeggEnzyme_completeness(orthologs[e], gene_list)]

(***************************************************************************)
(* Catalyst: the loops over self.enzymes, one pass at a time.  A run of a  *)
(* loop is known by the entries it has left to visit (and, for             *)
(* completeness, by max_comp); the next entry visited is any of those      *)
(* left.  present[e] and completeness[e] are what the call on the enzyme e *)
(* returns.  Each operator gives the values the method can return, from    *)
(* the runs it is given.                                                   *)
(***************************************************************************)
\* "return i.present(gene_list)" in the first pass
Catalyst_present_FirstOnly(lefts, present) ==
    {FALSE : left \in {l \in lefts : ToVisit(l) = {}}}
        \cup UNION {{present[i] : i \in ToVisit(left)} : left \in lefts}

RECURSIVE Catalyst_present(_, _)
Catalyst_present(lefts, present) ==
    IF lefts = {} THEN {}
    ELSE \* the loop is over: return False
         {FALSE : left \in {l \in lefts : ToVisit(l) = {}}}
         \* a pass for a present enzyme: return True
         \cup UNION {{TRUE : i \in {e \in ToVisit(left) : present[e]}} : left \in lefts}
         \* a pass for any other enzyme: the loop goes on
         \cup Catalyst_present(
                  UNION {{[left EXCEPT ![i] = @ - 1] :
                             i \in {e \in ToVisit(left) : ~present[e]}} : left \in lefts},
                  present)

\* max_comp is the completeness of the first enzyme visited
Catalyst_completeness_First(runs, completeness) ==
    {r.max_comp : r \in {x \in runs : ToVisit(x.left) = {}}}
        \cup UNION {{completeness[i] : i \in ToVisit(r.left)} : r \in runs}

RECURSIVE Catalyst_completeness(_, _)
Catalyst_completeness(runs, completeness) ==
    IF runs = {} THEN {}
    ELSE \* the loop is over: return max_comp
         {r.max_comp : r \in {x \in runs : ToVisit(x.left) = {}}}
         \* a pass: comp = i.completeness(gene_list), kept when larger
         \cup Catalyst_completeness(
                  UNION {{[left |-> [r.left EXCEPT ![i] = @ - 1],
                           max_comp |-> IF FloatGT(completeness[i], r.max_comp)
                                        THEN completeness[i] ELSE r.max_comp] :
                             i \in ToVisit(r.left)} : r \in runs},
                  completeness)

\* the values KeggEnzyme.completeness can return
EnzymeScores ==
    {KeggEnzyme_completeness(o, gene_list) : o \in SUBSET KO, gene_list \in SUBSET KO}

\* what the loops of Catalyst.present and Catalyst.completeness can return
\* over the members S, for each way the calls on the enzymes can return
\* (@@ <<>> makes each an explicit table, computed once)
PresentOver ==
    [S \in SUBSET EnzIds, present \in [EnzIds -> BOOLEAN] |->
        Catalyst_present(Stored(S), present)] @@ <<>>

CompletenessOver ==
    [S \in SUBSET EnzIds, completeness \in [EnzIds -> EnzymeScores] |->
        Catalyst_completeness({[left |-> left, max_comp |-> Zero] : left \in Stored(S)},
                              completeness)] @@ <<>>

\* what catalyst.present(gene_list) and catalyst.completeness(gene_list) can
\* return for the catalyst c, given what the calls on the enzymes return
Catalyst_present_results(c, present) == PresentOver[enzymes[c], present]

Catalyst_completeness_results(c, completeness) ==
    CompletenessOver[enzymes[c], completeness]

\* the sequences that take their i-th element from results[i]
RECURSIVE Choices(_)
Choices(results) ==
    IF results = <<>> THEN {<<>>}
    ELSE {<<r>> \o rest : r \in Head(results), rest \in Choices(Tail(results))}

\* the ways to pick one possible result for every Catalyst
CatalystPresence(gene_list) ==
    UNION {Choices([c \in CatIds |-> Catalyst_present_results(c, present)]) :
              present \in {EnzymePresence(gene_list)}}

CatalystCompleteness(gene_list) ==
    UNION {Choices([c \in CatIds |-> Catalyst_completeness_results(c, completeness)]) :
              completeness \in {EnzymeCompleteness(gene_list)}}

(***************************************************************************)
(* KeggReaction: the loops over self.catalysts.  cs is the sequence of the *)
(* catalysts in the order the loop visits them; present[c] and             *)
(* completeness[c] are what the call on the catalyst c returns.            *)
(***************************************************************************)
RECURSIVE AnyCatalystPresent(_, _)
AnyCatalystPresent(cs, present) ==
    IF cs = <<>> THEN FALSE
    ELSE IF present[Head(cs)] THEN TRUE
    ELSE AnyCatalystPresent(Tail(cs), present)

RECURSIVE MaxCatalystCompleteness(_, _, _)
MaxCatalystCompleteness(cs, completeness, max_gene) ==
    IF cs = <<>> THEN max_gene
    ELSE LET m == completeness[Head(cs)]
         IN  MaxCatalystCompleteness(Tail(cs), completeness,
                                     IF FloatGT(m, max_gene) THEN m ELSE max_gene)

KeggReaction_present(cs, present) == AnyCatalystPresent(cs, present)

KeggReaction_completeness(cs, completeness) ==
    MaxCatalystCompleteness(cs, completeness, Zero)

\* what reaction.present(gene_list) and reaction.completeness(gene_list) can
\* return for a reaction with these catalysts; presence and scores are the
\* ways the calls on the catalysts can return
KeggReaction_present_results(catalysts, presence) ==
    {KeggReaction_present(cs, present) :
        cs \in Orders(catalysts), present \in presence}

KeggReaction_completeness_results(catalysts, scores) ==
    {KeggReaction_completeness(cs, completeness) :
        cs \in Orders(catalysts), completeness \in scores}

\* the ways to pick one possible result for every reaction of the module,
\* in list order
ReactionPresence(gene_list) ==
    UNION {Choices([i \in 1..Len(reactions) |->
                       KeggReaction_present_results(reactions[i], presence)]) :
              presence \in {CatalystPresence(gene_list)}}

ReactionCompleteness(gene_list) ==
    UNION {Choices([i \in 1..Len(reactions) |->
                       KeggReaction_completeness_results(reactions[i], scores)]) :
              scores \in {CatalystCompleteness(gene_list)}}

(***************************************************************************)
(* KeggModule: the loops over the list self.reactions.  present and        *)
(* completeness are the sequences of what the call on each reaction        *)
(* returns.                                                                *)
(***************************************************************************)
RECURSIVE AllReactionsPresent(_)
AllReactionsPresent(present) ==
    IF present = <<>> THEN TRUE
    ELSE IF ~Head(present) THEN FALSE
    ELSE AllReactionsPresent(Tail(present))

RECURSIVE TotalCompleteness(_, _)
TotalCompleteness(completeness, total) ==
    IF completeness = <<>> THEN total
    ELSE TotalCompleteness(Tail(completeness),
                           FloatAdd(total, Head(completeness)))

KeggModule_present_Any(present) == \E i \in 1..Len(present) : present[i]

KeggModule_present(present) == AllReactionsPresent(present)

KeggModule_completeness_Guarded(completeness) ==
    IF Len(completeness) = 0 THEN Return(Zero)
    ELSE FloatDivInt(TotalCompleteness(completeness, Zero), Len(completeness))

KeggModule_completeness_Sum(completeness) ==
    IF Len(completeness) = 0 THEN Raise(ZeroDivisionError)
    ELSE Return(TotalCompleteness(completeness, Zero))

KeggModule_completeness(completeness) ==
    FloatDivInt(TotalCompleteness(completeness, Zero), Len(completeness))

(***************************************************************************)
(* The hierarchy as a state machine.  call is the pending method call:     *)
(* op, the receiver self, the argument arg, and how it ended (kind is      *)
(* "return" with the value ret, or "raise" with the exception ret).        *)
(* The program is single-threaded: a call is made when none is pending,    *)
(* and a mutator that returns None leaves call at NoCall.                  *)
(***************************************************************************)
NoCall == [op |-> "none", self |-> 0, arg |-> {}, kind |-> "return", ret |-> FALSE]

\* a call that ended as the outcome o says
Ended(op, self, arg, o) ==
    [op |-> op, self |-> self, arg |-> arg, kind |-> o.kind, ret |-> o.ret]

DefIdle ==
    /\ definition = <<>> /\ pos = 0 /\ bracket = 0 /\ current_KO = <<>>
    /\ current_enzyme = <<>> /\ step_enzymes = <<>> /\ steps = <<>>
    /\ outcome = "idle"

ParseIdle ==
    /\ handle = <<>> /\ lineno = 0 /\ source = <<>> /\ record = <<>>
    /\ state = "" /\ yielded = <<>> /\ printed = <<>> /\ gen = "idle"

HierIdle ==
    /\ orthologs = <<>> /\ enzymes = <<>> /\ reactions = <<>> /\ call = NoCall

\* KeggEnzyme.__init__, Catalyst.__init__, KeggModule.__init__
Init ==
    /\ orthologs = [e \in EnzIds |-> {}]
    /\ enzymes = [c \in CatIds |-> {}]
    /\ reactions = <<>>
    /\ call = NoCall
    /\ DefIdle
    /\ ParseIdle

KeggEnzyme_add(e, ortholog) ==
    /\ call.op = "none"
    /\ orthologs' = [orthologs EXCEPT ![e] = @ \cup {ortholog}]
    /\ call' = NoCall
    /\ UNCHANGED <<enzymes, reactions, dvars, pvars>>

KeggEnzyme_remove(e, ortholog) ==
    /\ call.op = "none"
    /\ IF ortholog \in orthologs[e]
       THEN /\ orthologs' = [orthologs EXCEPT ![e] = @ \ {ortholog}]
            /\ call' = NoCall
       ELSE /\ orthologs' = orthologs
            /\ call' = Ended("KeggEnzyme.remove", e, ortholog, Raise(KeyError))
    /\ UNCHANGED <<enzymes, reactions, dvars, pvars>>

\* self.enzymes.add(e) on the set of KeggEnzyme: the sets of members it can
\* leave.  The set finds a member by KeggEnzyme.__hash__ and __eq__, both
\* taken from the accession and the orthologs.  An enzyme that is a member
\* stays one (if the orthologs changed since it was added the set stores the
\* object once more: see Stored).  An enzyme with the
\* orthologs of a member is taken for that member, and not added, when the
\* accessions are equal and the member is still stored under the hash of
\* its present orthologs; it is added otherwise.  The state keeps neither the
\* accessions nor the stored hashes, so both outcomes are allowed.
set_add(members, e) ==
    IF e \in members THEN {members}
    ELSE IF \E m \in members : orthologs[m] = orthologs[e]
         THEN {members, members \cup {e}}
         ELSE {members \cup {e}}

\* "for e in enzyme: self.enzymes.add(e)"
RECURSIVE add_each(_, _)
add_each(members, es) ==
    IF es = <<>> THEN {members}
    ELSE UNION {add_each(m, Tail(es)) : m \in set_add(members, Head(es))}

\* Catalyst.add(enzyme) with one KeggEnzyme
Catalyst_add(c, e) ==
    /\ call.op = "none"
    /\ \E members \in set_add(enzymes[c], e) :
           enzymes' = [enzymes EXCEPT ![c] = members]
    /\ call' = NoCall
    /\ UNCHANGED <<orthologs, reactions, dvars, pvars>>

\* Catalyst.add(enzyme) with a list of KeggEnzyme
Catalyst_add_list(c, es) ==
    /\ call.op = "none"
    /\ \E members \in add_each(enzymes[c], es) :
           enzymes' = [enzymes EXCEPT ![c] = members]
    /\ call' = NoCall
    /\ UNCHANGED <<orthologs, reactions, dvars, pvars>>

\* record.reactions.append(KeggReaction(reactants, catalysts=..., ...))
AppendReaction(catalysts) ==
    /\ call.op = "none"
    /\ Len(reactions) < MaxReactions
    /\ reactions' = Append(reactions, catalysts)
    /\ call' = NoCall
    /\ UNCHANGED <<orthologs, enzymes, dvars, pvars>>

CallEnzymePresent(e, gene_list) ==
    /\ call.op = "none"
    /\ call' = Ended("KeggEnzyme.present", e, gene_list,
                     Return(KeggEnzyme_present(orthologs[e], gene_list)))
    /\ UNCHANGED <<orthologs, enzymes, reactions, dvars, pvars>>

CallEnzymeCompleteness(e, gene_list) ==
    /\ call.op = "none"
    /\ call' = Ended("KeggEnzyme.completeness", e, gene_list,
                     Return(KeggEnzyme_completeness(orthologs[e], gene_list)))
    /\ UNCHANGED <<orthologs, enzymes, reactions, dvars, pvars>>

CallCatalystPresent(c, gene_list) ==
    /\ call.op = "none"
    /\ \E ret \in UNION {Catalyst_present_results(c, present) :
                               present \in {EnzymePresence(gene_list)}} :
          call' = Ended("Catalyst.present", c, gene_list, Return(ret))
    /\ UNCHANGED <<orthologs, enzymes, reactions, dvars, pvars>>

CallCatalystCompleteness(c, gene_list) ==
    /\ call.op = "none"
    /\ \E ret \in UNION {Catalyst_completeness_results(c, completeness) :
                               completeness \in {EnzymeCompleteness(gene_list)}} :
          call' = Ended("Catalyst.completeness", c, gene_list, Return(ret))
    /\ UNCHANGED <<orthologs, enzymes, reactions, dvars, pvars>>

\* KeggReaction(catalysts=...).present(gene_list): self is the reaction's
\* catalysts
CallReactionPresent(catalysts, gene_list) ==
    /\ call.op = "none"
    /\ \E ret \in UNION {KeggReaction_present_results(catalysts, presence) :
                               presence \in {CatalystPresence(gene_list)}} :
          call' = Ended("KeggReaction.present", catalysts, gene_list, Return(ret))
    /\ UNCHANGED <<orthologs, enzymes, reactions, dvars, pvars>>

CallReactionCompleteness(catalysts, gene_list) ==
    /\ call.op = "none"
    /\ \E ret \in UNION {KeggReaction_completeness_results(catalysts, scores) :
                               scores \in {CatalystCompleteness(gene_list)}} :
          call' = Ended("KeggReaction.completeness", catalysts, gene_list,
                        Return(ret))
    /\ UNCHANGED <<orthologs, enzymes, reactions, dvars, pvars>>

CallModulePresent(gene_list) ==
    /\ call.op = "none"
    /\ \E present \in ReactionPresence(gene_list) :
          LET ret == KeggModule_present(present) IN
          call' = Ended("KeggModule.present", 0, gene_list, Return(ret))
    /\ UNCHANGED <<orthologs, enzymes, reactions, dvars, pvars>>

CallModuleCompleteness(gene_list) ==
    /\ call.op = "none"
    /\ \E completeness \in ReactionCompleteness(gene_list) :
          LET o == KeggModule_completeness(completeness) IN
          call' = Ended("KeggModule.completeness", 0, gene_list, o)
    /\ UNCHANGED <<orthologs, enzymes, reactions, dvars, pvars>>

\* control returns to the caller, which takes the value or the exception
ReturnToCaller ==
    /\ call.op # "none"
    /\ call' = NoCall
    /\ UNCHANGED <<orthologs, enzymes, reactions, dvars, pvars>>

EnzymeLists == UNION {[1..n -> EnzIds] : n \in 0..Cardinality(EnzIds)}

Next ==
    \/ \E e \in EnzIds, k \in KO : KeggEnzyme_add(e, k)
    \/ \E e \in EnzIds, k \in KO : KeggEnzyme_remove(e, k)
    \/ \E c \in CatIds, e \in EnzIds : Catalyst_add(c, e)
    \/ \E c \in CatIds, es \in EnzymeLists : Catalyst_add_list(c, es)
    \/ \E cs \in SUBSET CatIds : AppendReaction(cs)
    \/ \E gl \in SUBSET KO : CallModulePresent(gl)
    \/ \E gl \in SUBSET KO : CallModuleCompleteness(gl)
    \/ ReturnToCaller

Spec == Init /\ [][Next]_vars

NextEntity ==
    \/ \E e \in EnzIds, k \in KO : KeggEnzyme_add(e, k)
    \/ \E e \in EnzIds, k \in KO : KeggEnzyme_remove(e, k)
    \/ \E c \in CatIds, e \in EnzIds : Catalyst_add(c, e)
    \/ \E c \in CatIds, es \in EnzymeLists : Catalyst_add_list(c, es)
    \/ \E e \in EnzIds, gl \in SUBSET KO : CallEnzymePresent(e, gl)
    \/ \E e \in EnzIds, gl \in SUBSET KO : CallEnzymeCompleteness(e, gl)
    \/ \E c \in CatIds, gl \in SUBSET KO : CallCatalystPresent(c, gl)
    \/ \E c \in CatIds, gl \in SUBSET KO : CallCatalystCompleteness(c, gl)
    \/ \E cs \in SUBSET CatIds, gl \in SUBSET KO : CallReactionPresent(cs, gl)
    \/ \E cs \in SUBSET CatIds, gl \in SUBSET KO : CallReactionCompleteness(cs, gl)
    \/ ReturnToCaller

SpecEntity == Init /\ [][NextEntity]_vars

(***************************************************************************)
(* Properties of the hierarchy.  Each reads the pending call: its          *)
(* receiver call.self, the observed set call.arg and the outcome.          *)
(***************************************************************************)
IsFloat(v) == v.den > 0
InUnitInterval(v) == IsFloat(v) /\ 0 <= v.num /\ v.num <= v.den
\* v is the largest member of the set S of floats, and 0.0 when S is empty
IsMaxOf(v, S) ==
    IF S = {} THEN v = Zero
    ELSE v \in S /\ \A x \in S : ~FloatGT(x, v)

\* C1: KeggEnzyme.present(observed) is true exactly when the ortholog set is
\* non-empty and a subset of observed; an enzyme with zero orthologs is never
\* present, for any observed set including the empty one.
C1_EnzymePresentIffNonEmptySubset ==
    call.op = "KeggEnzyme.present" =>
        /\ call.kind = "return"
        /\ call.ret = (/\ orthologs[call.self] # {}
                       /\ \A k \in orthologs[call.self] : k \in call.arg)

\* an enzyme with no orthologs asked about the empty observed set
C1_Witness ==
    /\ call.op = "KeggEnzyme.present"
    /\ orthologs[call.self] = {}
    /\ call.arg = {}
    /\ call.ret = FALSE

\* C2: KeggEnzyme.completeness(observed) is
\* (|orthologs| - |orthologs \ observed|) / |orthologs| for a non-empty
\* ortholog set and 0.0, with no division error, for an empty one.
C2_EnzymeCompletenessFraction ==
    call.op = "KeggEnzyme.completeness" =>
        LET o == orthologs[call.self]
            n == Cardinality(o)
        IN  /\ call.kind = "return"
            /\ IsFloat(call.ret)
            /\ n = 0 => call.ret = Zero
            /\ n > 0 => call.ret.num * n
                          = (n - Cardinality(o \ call.arg)) * call.ret.den

\* one of two orthologs observed: 0.5
C2_Witness ==
    /\ call.op = "KeggEnzyme.completeness"
    /\ Cardinality(orthologs[call.self]) = 2
    /\ Cardinality(orthologs[call.self] \ call.arg) = 1
    /\ call.ret = Float(1, 2)

\* some enzyme of the catalyst c is present
SomeEnzymePresent(c, gene_list) ==
    \E e \in enzymes[c] : KeggEnzyme_present(orthologs[e], gene_list)

\* some catalyst of the set cs is present
SomeCatalystPresent(cs, gene_list) ==
    \E c \in cs : SomeEnzymePresent(c, gene_list)

\* the largest completeness among the enzymes of c, 0.0 without enzymes
CatalystScore(c, gene_list) ==
    LET S == {KeggEnzyme_completeness(orthologs[e], gene_list) : e \in enzymes[c]}
    IN  CHOOSE v \in S \cup {Zero} : IsMaxOf(v, S)

\* the largest score among the catalysts of cs, 0.0 without catalysts
ReactionScore(cs, gene_list) ==
    LET S == {CatalystScore(c, gene_list) : c \in cs}
    IN  CHOOSE v \in S \cup {Zero} : IsMaxOf(v, S)

\* C3: for a Catalyst over its enzymes and a KeggReaction over its catalysts,
\* present(observed) is true iff at least one child is present, and
\* completeness(observed) is the maximum of the children's completeness,
\* 0.0 when there are no children.
C3_OrAggregation ==
    /\ call.op = "Catalyst.present" =>
           /\ call.kind = "return"
           /\ call.ret = SomeEnzymePresent(call.self, call.arg)
    /\ call.op = "Catalyst.completeness" =>
           /\ call.kind = "return"
           /\ IsMaxOf(call.ret, {KeggEnzyme_completeness(orthologs[e], call.arg) :
                                    e \in enzymes[call.self]})
    /\ call.op = "KeggReaction.present" =>
           /\ call.kind = "return"
           /\ call.ret = SomeCatalystPresent(call.self, call.arg)
    /\ call.op = "KeggReaction.completeness" =>
           /\ call.kind = "return"
           /\ IsMaxOf(call.ret, {CatalystScore(c, call.arg) : c \in call.self})

\* a reaction of two catalysts, one of them absent, found present; the
\* present catalyst holds two enzymes, one of them absent
C3_Witness ==
    /\ call.op = "KeggReaction.present"
    /\ call.ret = TRUE
    /\ Cardinality(call.self) = 2
    /\ \E c \in call.self : ~SomeEnzymePresent(c, call.arg)
    /\ \E c \in call.self :
          /\ SomeEnzymePresent(c, call.arg)
          /\ \E e \in enzymes[c] : ~KeggEnzyme_present(orthologs[e], call.arg)

\* C4: KeggModule.present(observed) is true iff every owned reaction is
\* present; a module with zero reactions is reported present.
C4_ModulePresentIffAllReactions ==
    call.op = "KeggModule.present" =>
        /\ call.kind = "return"
        /\ call.ret = (\A i \in 1..Len(reactions) :
                           SomeCatalystPresent(reactions[i], call.arg))

\* the first reaction present, the second absent: the module is absent
C4_Witness ==
    /\ call.op = "KeggModule.present"
    /\ Len(reactions) = 2
    /\ SomeCatalystPresent(reactions[1], call.arg)
    /\ ~SomeCatalystPresent(reactions[2], call.arg)
    /\ call.ret = FALSE

\* the sum of the completeness of reactions i..Len(reactions)
RECURSIVE SumFrom(_, _)
SumFrom(i, gene_list) ==
    IF i > Len(reactions) THEN Zero
    ELSE FloatAdd(ReactionScore(reactions[i], gene_list),
                  SumFrom(i + 1, gene_list))

\* C5: KeggModule.completeness(observed) returns the arithmetic mean of the
\* reactions' completeness when there is at least one reaction, and with zero
\* reactions it ends in an error that reaches the caller, never in a number.
C5_ModuleCompletenessMeanOrError ==
    call.op = "KeggModule.completeness" =>
        LET n == Len(reactions) IN
        /\ n > 0 => /\ call.kind = "return"
                    /\ IsFloat(call.ret)
                    /\ call.ret.num * SumFrom(1, call.arg).den * n
                         = SumFrom(1, call.arg).num * call.ret.den
        /\ n = 0 => /\ call.kind = "raise"
                    /\ call.ret = ZeroDivisionError

\* the completeness of a module with no reactions was asked for
C5_Witness ==
    /\ call.op = "KeggModule.completeness"
    /\ Len(reactions) = 0
    /\ call.kind = "raise"

\* C6: every completeness score returned by a KeggEnzyme, a Catalyst, a
\* KeggReaction or a KeggModule with at least one reaction, however the
\* hierarchy was assembled, lies in [0.0, 1.0].  Read at a call of
\* KeggModule.completeness: its own score, and the score of every entity
\* for the same observed set, in whatever order the sets are visited.
C6_CompletenessInUnitInterval ==
    call.op = "KeggModule.completeness" =>
        /\ \A e \in EnzIds :
               InUnitInterval(KeggEnzyme_completeness(orthologs[e], call.arg))
        /\ \A scores \in {CatalystCompleteness(call.arg)} :
               /\ \A completeness \in scores, c \in CatIds :
                      InUnitInterval(completeness[c])
               /\ \A i \in 1..Len(reactions) :
                      \A v \in KeggReaction_completeness_results(reactions[i], scores) :
                          InUnitInterval(v)
        /\ Len(reactions) > 0 =>
               call.kind = "return" /\ InUnitInterval(call.ret)

\* a module of two reactions scoring strictly between 0.0 and 1.0
C6_Witness ==
    /\ call.op = "KeggModule.completeness"
    /\ Len(reactions) = 2
    /\ call.kind = "return"
    /\ 0 < call.ret.num
    /\ call.ret.num < call.ret.den

\* the float 1.0
One == Float(1, 1)

\* C11: presence and full completeness coincide at every level: for every
\* KeggEnzyme, every Catalyst, every KeggReaction of the module and the
\* KeggModule itself when it owns at least one reaction, present(observed)
\* is true exactly when completeness(observed) is 1.0.  Read at a call of
\* KeggModule.completeness, for the observed set of the call, in whatever
\* order the sets are visited.
C11_PresentIffFullyComplete ==
    call.op = "KeggModule.completeness" =>
        LET gene_list == call.arg IN
        /\ \A e \in EnzIds :
               KeggEnzyme_present(orthologs[e], gene_list)
                   <=> (KeggEnzyme_completeness(orthologs[e], gene_list) = One)
        /\ \A presence \in {CatalystPresence(gene_list)},
              scores \in {CatalystCompleteness(gene_list)} :
               /\ \A present \in presence, completeness \in scores, c \in CatIds :
                      present[c] <=> (completeness[c] = One)
               /\ \A i \in 1..Len(reactions) :
                      \A p \in KeggReaction_present_results(reactions[i], presence),
                         v \in KeggReaction_completeness_results(reactions[i], scores) :
                          p <=> (v = One)
               /\ Len(reactions) > 0 =>
                      \A present \in
                            Choices([i \in 1..Len(reactions) |->
                                KeggReaction_present_results(reactions[i], presence)]) :
                          KeggModule_present(present) <=> (call.ret = One)
        /\ Len(reactions) > 0 => call.kind = "return"

\* a module of two reactions scores 1.0 although one enzyme of a catalyst
\* in use is only partly observed: an alternative enzyme carries the step
C11_Witness ==
    /\ call.op = "KeggModule.completeness"
    /\ Len(reactions) = 2
    /\ call.kind = "return"
    /\ call.ret = One
    /\ \A i \in 1..2 : SomeCatalystPresent(reactions[i], call.arg)
    /\ \E i \in 1..2 : \E c \in reactions[i] : \E e \in enzymes[c] :
           LET m == KeggEnzyme_completeness(orthologs[e], call.arg)
           IN  0 < m.num /\ m.num < m.den

(***************************************************************************)
(* KeggModule._parse_kegg_module_definition: the scan of self.definition,  *)
(* one character per step.  A string is the sequence of its characters.    *)
(***************************************************************************)
MaxDefLen == 4      \* length of the definition string

\* '(' ')' ' ' '+' '-' ',' , two characters of a KO number, and one
\* character that is none of these
Chars == {"(", ")", " ", "+", "-", ",", "K", "0", "M"}
KOChars == {"K", "0", "1", "2", "3", "4", "5", "6", "7", "8", "9"}

Definitions == UNION {[1..n -> Chars] : n \in 0..MaxDefLen}

\* the local variables at the top of the method
ScanStart ==
    [bracket |-> 0, current_KO |-> <<>>, current_enzyme |-> <<>>,
     step_enzymes |-> <<>>, steps |-> <<>>]

\* one iteration of "for c in self.definition"
ScanChar(s, c) ==
    IF c = "(" THEN [s EXCEPT !.bracket = @ + 1]
    ELSE IF c = " " THEN
        IF s.bracket = 0
        THEN [s EXCEPT !.current_KO = <<>>,
                       !.current_enzyme = <<>>,
                       !.step_enzymes = <<>>,
                       !.steps = Append(@, Append(s.step_enzymes,
                                           Append(s.current_enzyme, s.current_KO)))]
        ELSE [s EXCEPT !.current_enzyme = Append(@, s.current_KO),
                       !.current_KO = <<>>]
    ELSE IF c = ")" THEN [s EXCEPT !.bracket = @ - 1]
    ELSE IF c = "+" THEN [s EXCEPT !.current_enzyme = Append(@, s.current_KO),
                                   !.current_KO = <<>>]
    ELSE IF c = "-" THEN [s EXCEPT !.current_enzyme = Append(@, s.current_KO),
                                   !.current_KO = <<>>]
    ELSE IF c = "," THEN
        [s EXCEPT !.step_enzymes = Append(@, Append(s.current_enzyme, s.current_KO)),
                  !.current_enzyme = <<>>,
                  !.current_KO = <<>>]
    ELSE IF c \in KOChars THEN [s EXCEPT !.current_KO = Append(@, c)]
    ELSE s

\* the locals after the first n characters of the string d
RECURSIVE ScanPrefix(_, _)
ScanPrefix(d, n) == IF n = 0 THEN ScanStart ELSE ScanChar(ScanPrefix(d, n - 1), d[n])

Locals ==
    [bracket |-> bracket, current_KO |-> current_KO,
     current_enzyme |-> current_enzyme, step_enzymes |-> step_enzymes,
     steps |-> steps]

InitDef ==
    /\ definition \in Definitions
    /\ pos = 0
    /\ bracket = ScanStart.bracket
    /\ current_KO = ScanStart.current_KO
    /\ current_enzyme = ScanStart.current_enzyme
    /\ step_enzymes = ScanStart.step_enzymes
    /\ steps = ScanStart.steps
    /\ outcome = "running"
    /\ HierIdle
    /\ ParseIdle

\* the body of the for loop on the next character
ScanNextChar ==
    /\ outcome = "running"
    /\ pos < Len(definition)
    /\ LET s == ScanChar(Locals, definition[pos + 1]) IN
       /\ bracket' = s.bracket
       /\ current_KO' = s.current_KO
       /\ current_enzyme' = s.current_enzyme
       /\ step_enzymes' = s.step_enzymes
       /\ steps' = s.steps
    /\ pos' = pos + 1
    /\ UNCHANGED <<definition, outcome, hvars, pvars>>

\* the for loop is exhausted and the method falls off its end: it returns
\* None, whatever the locals hold
ScanReturn ==
    /\ outcome = "running"
    /\ pos = Len(definition)
    /\ outcome' = "returned None"
    /\ UNCHANGED <<definition, pos, bracket, current_KO, current_enzyme,
                   step_enzymes, steps, hvars, pvars>>

NextDef == ScanNextChar \/ ScanReturn

SpecDef == InitDef /\ [][NextDef]_vars

\* '(' minus ')' among the first n characters of d
RECURSIVE Depth(_, _)
Depth(d, n) ==
    IF n = 0 THEN 0
    ELSE Depth(d, n - 1) + (IF d[n] = "(" THEN 1 ELSE IF d[n] = ")" THEN -1 ELSE 0)

Unbalanced(d) ==
    \/ \E n \in 1..Len(d) : Depth(d, n) < 0
    \/ Depth(d, Len(d)) # 0

\* C7: the scan counts '(' up and ')' down, and for every definition in which
\* the count goes negative or ends non-zero the parse fails with a
\* SyntaxError and yields no result.
C7_UnbalancedFailsWithSyntaxError ==
    /\ bracket = Depth(definition, pos)
    /\ (outcome # "running" /\ Unbalanced(definition)) => outcome = "SyntaxError"

\* d with every '-' replaced by '+'
MinusAsPlus(d) == [i \in 1..Len(d) |-> IF d[i] = "-" THEN "+" ELSE d[i]]

\* d is a-b for two identifiers a and b
IsOptionalPair(d) ==
    \E i \in 2..(Len(d) - 1) :
        /\ d[i] = "-"
        /\ \A j \in 1..Len(d) : j # i => d[j] \in KOChars

\* C8: the scan tells '-' from '+': what it has recorded for "a-b" differs
\* from what it records for "a+b".
C8_MinusDiffersFromPlus ==
    (outcome = "returned None" /\ IsOptionalPair(definition)) =>
        Locals # ScanPrefix(MinusAsPlus(definition), Len(definition))

(***************************************************************************)
(* parse(handle): the generator over the lines of a handle, one line per   *)
(* step, with parse_reaction, parse_reaction_file and parse_enzyme_file    *)
(* behind the REACTION lines.                                              *)
(*                                                                         *)
(* A line is a record: key is what the prefix tests of the loop find,      *)
(* fields is what split() makes of the text after the key, and for a line  *)
(* that can reach parse_reaction rxns and eq are what its splits make of   *)
(* that text: the ','-separated accessions, each the sequence of its       *)
(* '+'-separated parts, and the sides of ' -> ', each the sequence of its  *)
(* ' + '-separated compounds.                                              *)
(***************************************************************************)
MaxLines == 4       \* lines in the handle

Terminator == [key |-> "///"]
EntryLine == [key |-> "ENTRY", fields |-> <<"M00001", "Pathway">>]
\* an ENTRY line with fewer than three fields
ShortEntryLine == [key |-> "ENTRY", fields |-> <<"M00001">>]
\* "NAME        Glycolysis"
NameLine == [key |-> "NAME", fields |-> <<"Glycolysis">>]
\* "PATHWAY     map00010  Glycolysis / Gluconeogenesis"
PathwayLine ==
    [key |-> "PATHWAY", fields |-> <<"map00010", "Glycolysis", "/", "Gluconeogenesis">>]
\* "PATHWAY     map00010  Glycolysis"
ShortPathwayLine == [key |-> "PATHWAY", fields |-> <<"map00010", "Glycolysis">>]
\* "COMPOUND    C1  Glucose"
CompoundLine == [key |-> "COMPOUND", fields |-> <<"C1", "Glucose">>]
\* "REACTION    R1,R2+R3  C1 -> C2"
ReactionLine ==
    [key |-> "REACTION", fields |-> <<"R1,R2+R3", "C1", "->", "C2">>,
     rxns |-> << <<"R1">>, <<"R2", "R3">> >>,
     eq |-> << <<"C1">>, <<"C2">> >>]
\* a REACTION line whose equation holds no ' -> '
NoArrowReactionLine ==
    [key |-> "REACTION", fields |-> <<"R1", "C1">>,
     rxns |-> << <<"R1">> >>, eq |-> << <<"C1">> >>]
\* a line that starts with a space: "            R2+R3  C2 -> C3"
ContinuationLine ==
    [key |-> " ", fields |-> <<"R2+R3", "C2", "->", "C3">>,
     rxns |-> << <<"R2", "R3">> >>, eq |-> << <<"C2">>, <<"C3">> >>]

Lines == {Terminator, EntryLine, ShortEntryLine, NameLine, PathwayLine,
          ShortPathwayLine, CompoundLine, ReactionLine, NoArrowReactionLine,
          ContinuationLine}
Handles == UNION {[1..n -> Lines] : n \in 0..MaxLines}

\* What the record source holds: the accessions on the ENZYME line of each
\* reaction record (R1 and R2+R3 are the accessions asked for), and the lines
\* of each enzyme record.
ReactionRecord(rxn) == IF rxn = <<"R1">> THEN <<"E1">> ELSE <<"E2">>

\* the lines of the record of the enzyme e; a malformed record has an
\* ORTHOLOGY line that holds the accession and nothing after it
EnzymeRecord(e, answer) ==
    IF answer = "malformed"
    THEN << [key |-> "ORTHOLOGY", fields |-> <<"K00001">>], [key |-> "///"] >>
    ELSE IF e = "E1"
    THEN << [key |-> "ORTHOLOGY", fields |-> <<"K00001", "hexokinase">>],
            [key |-> "///"] >>
    ELSE << [key |-> "ORTHOLOGY", fields |-> <<"K00001", "hexokinase">>],
            [key |-> " ", fields |-> <<"K00002", "glucokinase">>],
            [key |-> "GENES", fields |-> <<"HSA:", "3098">>],
            [key |-> " ", fields |-> <<"PTR:", "450505">>],
            [key |-> "///"] >>

\* How one call of kegg_get can answer.  Every call is a request of its
\* own, and two calls for the same accession can answer differently.  For a
\* reaction accession: the record, the record cut before its '///' line, an
\* HTTPError, or an exception that is no HTTPError (URLError stands for
\* these); for an enzyme accession: the record, a malformed record, an
\* HTTPError, or a URLError.
ReactionAnswers == {"ok", "truncated", "HTTPError", "URLError"}
EnzymeAnswers == {"ok", "malformed", "HTTPError", "URLError"}

\* KeggModule()
NewRecord ==
    [entry |-> "", name |-> <<>>, definition |-> <<>>, orthologs |-> <<>>,
     classname |-> <<>>, pathway |-> <<>>, reactions |-> <<>>]

\* the parse_orthology of parse_enzyme_file: "accession, _ = line.split(None, 1);
\* record.add(accession)"
parse_orthology(fields, o) ==
    IF Len(fields) < 2 THEN [o EXCEPT !.exc = "ValueError"]
    ELSE [o EXCEPT !.enzyme.orthologs = @ \cup {fields[1]}]

\* parse_enzyme_file(handle, enzyme): the loop over the lines still to read,
\* with the local state; o.exc names the exception that ended it
RECURSIVE parse_enzyme_file(_, _, _)
parse_enzyme_file(lines, st, o) ==
    IF lines = <<>> \/ o.exc # "" THEN o
    ELSE LET line == Head(lines) IN
         IF line.key = "///" THEN o
         ELSE IF line.key = "GENES" THEN parse_enzyme_file(Tail(lines), "GENES", o)
         ELSE IF line.key = "ORTHOLOGY"
         THEN parse_enzyme_file(Tail(lines), "ORTHOLOGY",
                                parse_orthology(line.fields, o))
         ELSE IF line.key = " " /\ st = "ORTHOLOGY"
         THEN parse_enzyme_file(Tail(lines), st,
                                parse_orthology(line.fields, o))
         ELSE parse_enzyme_file(Tail(lines), st, o)

\* one pass of the loop of parse_enzyme, for the accession e, when
\* kegg_get(e) answers with answer: an enzyme whose record cannot be had for
\* an HTTPError is reported and left out of ret; any other exception leaves
\* the loop
fetch_enzyme(e, answer, acc) ==
    LET logged == [acc EXCEPT !.log = Append(@, [kind |-> "enzyme", acc |-> e,
                                                  answer |-> answer])]
    IN
    IF answer = "HTTPError"
    THEN [logged EXCEPT !.printed = Append(@,
                  [msg |-> "cannot get information for enzyme", acc |-> e])]
    ELSE IF answer = "URLError" THEN [logged EXCEPT !.exc = "URLError"]
    ELSE LET o == parse_enzyme_file(EnzymeRecord(e, answer), "",
                      [exc |-> "", enzyme |-> [entry |-> e, orthologs |-> {}]])
         IN  IF o.exc # "" THEN [logged EXCEPT !.exc = o.exc]
             ELSE [logged EXCEPT !.ret = Append(@, o.enzyme)]

\* the loop of parse_enzyme over the accessions of an ENZYME line: the ways
\* it can end, one for each way the calls of kegg_get can answer
RECURSIVE parse_enzyme(_, _)
parse_enzyme(accs, acc) ==
    IF accs = <<>> \/ acc.exc # "" THEN {acc}
    ELSE UNION {parse_enzyme(Tail(accs), fetch_enzyme(Head(accs), answer, acc)) :
                   answer \in EnzymeAnswers}

\* parse_reaction_file(kegg_get(rxn)) once kegg_get has answered with a
\* record: the list ret at the '///' line, and None (none is set) when the
\* handle ends before one
parse_reaction_file(rxn, answer, acc) ==
    {IF r.exc = "" /\ answer = "truncated"
     THEN [r EXCEPT !.ret = <<>>, !.none = TRUE] ELSE r :
        r \in parse_enzyme(ReactionRecord(rxn),
                           [acc EXCEPT !.ret = <<>>, !.none = FALSE])}

\* "enzymes.extend(parse_reaction_file(kegg_get(rxn)))" when kegg_get(rxn)
\* answers with answer
fetch_part(rxn, answer, acc) ==
    LET logged == [acc EXCEPT !.log = Append(@, [kind |-> "reaction", acc |-> rxn,
                                                  answer |-> answer])]
    IN
    IF answer \in {"HTTPError", "URLError"} THEN {[logged EXCEPT !.exc = answer]}
    ELSE {IF f.exc # "" THEN [f EXCEPT !.ret = <<>>]
          ELSE IF f.none
          THEN [f EXCEPT !.exc = "TypeError", !.none = FALSE]
          ELSE [f EXCEPT !.enzymes = @ \o f.ret, !.ret = <<>>] :
             f \in parse_reaction_file(rxn, answer, logged)}

\* "for r in rxn.split('+'): enzymes.extend(parse_reaction_file(kegg_get(rxn)))"
\* for the n parts of rxn not yet visited
RECURSIVE FetchParts(_, _, _)
FetchParts(rxn, n, acc) ==
    IF n = 0 \/ acc.exc # "" THEN {acc}
    ELSE UNION {FetchParts(rxn, n - 1, f) :
                   f \in UNION {fetch_part(rxn, answer, acc) :
                                   answer \in ReactionAnswers}}

\* "for rxn in rxns.split(','): ... catalyst.add(enzymes)"
RECURSIVE FetchReactions(_, _)
FetchReactions(rxns, acc) ==
    IF rxns = <<>> \/ acc.exc # "" THEN {acc}
    ELSE UNION {FetchReactions(Tail(rxns),
                    IF f.exc # "" THEN f
                    ELSE [f EXCEPT !.catalyst = @ \cup
                                      {f.enzymes[i] : i \in 1..Len(f.enzymes)}]) :
                   f \in FetchParts(Head(rxns), Len(Head(rxns)),
                                    [acc EXCEPT !.enzymes = <<>>])}

\* the reactants dict: -1 for a substrate, then 1 for a product
Reactants(eq) ==
    LET subs == {eq[1][i] : i \in 1..Len(eq[1])}
        prods == {eq[2][i] : i \in 1..Len(eq[2])}
    IN  [c \in subs \cup prods |-> IF c \in prods THEN 1 ELSE -1]

\* the state of the generator between two lines
GenState ==
    [record |-> record, state |-> state, yielded |-> yielded,
     printed |-> printed, gen |-> gen, source |-> <<>>]

\* parse_pathway(string, record)
parse_pathway(fields, g) ==
    IF Len(fields) < 3 THEN [g EXCEPT !.gen = "ValueError"]
    ELSE [g EXCEPT !.record.pathway = Append(@,
                       <<"PATH", fields[2], SubSeq(fields, 3, Len(fields))>>)]

\* parse_reaction(string, record): the ways it can end
parse_reaction(line, g) ==
    IF Len(line.fields) < 2 \/ Len(line.eq) # 2 THEN {[g EXCEPT !.gen = "ValueError"]}
    ELSE {IF f.exc # ""
          THEN [g EXCEPT !.gen = f.exc, !.printed = f.printed, !.source = f.log]
          ELSE [g EXCEPT !.printed = f.printed, !.source = f.log,
                         !.record.reactions = Append(@,
                             [reactants |-> Reactants(line.eq),
                              catalysts |-> <<f.catalyst>>,
                              reversible |-> 1,
                              data |-> line.rxns])] :
             f \in FetchReactions(line.rxns,
                      [exc |-> "", catalyst |-> {}, enzymes |-> <<>>, ret |-> <<>>,
                       none |-> FALSE, printed |-> g.printed, log |-> <<>>])}

\* the ENTRY branch with the ValueError of a short line swallowed
parse_entry_Swallowing(line, g) ==
    IF Len(line.fields) < 2 THEN g
    ELSE [g EXCEPT !.record.entry = line.fields[1]]

\* the ENTRY branch of the loop
parse_entry(line, g) ==
    IF Len(line.fields) < 2
    THEN [g EXCEPT !.printed = Append(@, [msg |-> "line", acc |-> line.fields]),
                   !.gen = "ValueError"]
    ELSE [g EXCEPT !.record.entry = line.fields[1]]

\* the body of "for line in handle", up to the yield of a '///' line: the
\* ways it can end.  The parse_orthology of parse returns at once, so an
\* ORTHOLOGY line only sets the state.
parse_line(line, g) ==
    IF line.key = "///"
    THEN {[g EXCEPT !.yielded = Append(@, g.record), !.gen = "suspended"]}
    ELSE IF line.key = "ENTRY" THEN {parse_entry(line, g)}
    ELSE IF line.key = "NAME"
    THEN {[g EXCEPT !.record.name = Append(@, line.fields)]}
    ELSE IF line.key = "DEFINITION"
    THEN {[g EXCEPT !.record.definition = line.fields]}
    ELSE IF line.key = "ORTHOLOGY" THEN {[g EXCEPT !.state = "ORTHOLOGY"]}
    ELSE IF line.key = "CLASS"
    THEN {[g EXCEPT !.record.classname = Append(@, line.fields)]}
    ELSE IF line.key = "PATHWAY"
    THEN {parse_pathway(line.fields, [g EXCEPT !.state = "PATHWAY"])}
    ELSE IF line.key = "REACTION"
    THEN parse_reaction(line, [g EXCEPT !.state = "REACTION"])
    ELSE IF line.key = "COMPOUND" THEN {[g EXCEPT !.state = "COMPOUND"]}
    ELSE IF line.key = " "
    THEN IF g.state = "PATHWAY" THEN {parse_pathway(line.fields, g)}
         ELSE IF g.state = "REACTION" THEN parse_reaction(line, g)
         ELSE {g}
    ELSE {g}

InitParse ==
    /\ handle \in Handles
    /\ lineno = 0
    /\ source = <<>>
    /\ record = NewRecord
    /\ state = ""
    /\ yielded = <<>>
    /\ printed = <<>>
    /\ gen = "running"
    /\ HierIdle
    /\ DefIdle

\* the generator takes the next line of the handle and runs the body of the
\* loop, to its end or to the yield
ParseLine ==
    /\ gen = "running"
    /\ lineno < Len(handle)
    /\ \E g \in parse_line(handle[lineno + 1], GenState) :
          /\ record' = g.record
          /\ state' = g.state
          /\ yielded' = g.yielded
          /\ printed' = g.printed
          /\ gen' = g.gen
          /\ source' = g.source
    /\ lineno' = lineno + 1
    /\ UNCHANGED <<handle, hvars, dvars>>

\* the consumer asks for the next record: the generator goes on after the
\* yield with "record = KeggModule()"
Resume ==
    /\ gen = "suspended"
    /\ record' = NewRecord
    /\ gen' = "running"
    /\ UNCHANGED <<handle, lineno, source, state, yielded, printed, hvars, dvars>>

\* the consumer leaves its loop on an exception of its own: the generator
\* is never resumed, and is closed at the yield
Abandon ==
    /\ gen = "suspended"
    /\ gen' = "closed"
    /\ UNCHANGED <<handle, lineno, source, record, state, yielded, printed,
                   hvars, dvars>>

\* the handle is at its end: the generator returns, and the record being
\* filled is dropped
ParseEnd ==
    /\ gen = "running"
    /\ lineno = Len(handle)
    /\ gen' = "exhausted"
    /\ UNCHANGED <<handle, lineno, source, record, state, yielded, printed,
                   hvars, dvars>>

NextParse == ParseLine \/ Resume \/ Abandon \/ ParseEnd

SpecParse == InitParse /\ [][NextParse]_vars

(***************************************************************************)
(* Properties of parse(handle).  source holds the calls of kegg_get made   *)
(* for the line just handled, in order, each with its answer.              *)
(***************************************************************************)
Failed(i) == source[i].answer \in {"HTTPError", "URLError"}

\* the failed retrieval i was reported by a print that names the accession
Reported(i) ==
    \E p \in 1..Len(printed) :
        /\ printed[p].msg = "cannot get information for enzyme"
        /\ source[i].kind = "enzyme"
        /\ printed[p].acc = source[i].acc

\* C9: whenever the record source fails to supply an enzyme record or a
\* reaction record, that sub-record alone is left out, a report naming it is
\* emitted and assembly goes on: every enzyme whose retrieval succeeded is in
\* the assembled catalyst, and the module record is still produced.
C9_RetrievalFailureOmitsOnlyThatRecord ==
    (/\ \E i \in 1..Len(source) : Failed(i)
     /\ \A i \in 1..Len(source) :
            source[i].answer \in {"ok", "HTTPError", "URLError"}) =>
        /\ gen \in {"running", "exhausted"}
        /\ \A i \in 1..Len(source) : Failed(i) => Reported(i)
        /\ record.reactions # <<>>
        /\ \A i \in 1..Len(source) :
               (source[i].kind = "enzyme" /\ source[i].answer = "ok") =>
                   \E e \in record.reactions[Len(record.reactions)].catalysts[1] :
                       e.entry = source[i].acc

IsTerminator(l) == l.key = "///"
\* a line on which the parser raises ValueError
Malformed(l) ==
    \/ l.key = "ENTRY" /\ Len(l.fields) < 2
    \/ l.key = "REACTION" /\ Len(l.eq) # 2
    \/ l.key = "PATHWAY" /\ Len(l.fields) < 3

\* the number of '///' lines among the first n lines of the handle
Terminators(n) == Cardinality({i \in 1..n : IsTerminator(handle[i])})

\* lines a..b are a record: they follow a '///' line or start the handle,
\* line b is the only '///' among them, and an ENTRY line is among them
IsRecord(a, b) ==
    /\ a < b
    /\ a = 1 \/ IsTerminator(handle[a - 1])
    /\ IsTerminator(handle[b])
    /\ \A i \in a..(b - 1) : ~IsTerminator(handle[i])
    /\ \E i \in a..(b - 1) : handle[i] = EntryLine

\* a record all of whose lines are ENTRY lines with their three fields
WellFormedRecord(a, b) ==
    IsRecord(a, b) /\ \A i \in a..(b - 1) : handle[i] = EntryLine

\* the records of the stream that start after line n
RecordsAfter(n) ==
    {ab \in (1..Len(handle)) \X (1..Len(handle)) : ab[1] > n /\ IsRecord(ab[1], ab[2])}

\* the well-formed records that follow the record in which line n lies
WellFormedAfterRecordOf(n) ==
    {ab \in RecordsAfter(n) :
        /\ WellFormedRecord(ab[1], ab[2])
        /\ \E t \in n..(ab[1] - 1) : IsTerminator(handle[t])}

\* C10 as first stated: a parse-time error aborts only the record being
\* read: the records completed before it have been yielded, and every
\* well-formed record after it is still parsed and yielded.
C10_LaterRecordsStillYielded ==
    gen = "ValueError" =>
        Len(yielded) >= Terminators(lineno - 1)
                          + Cardinality(WellFormedAfterRecordOf(lineno))

\* the entry of the record that the j-th '///' line completes
YieldedEntry(j) ==
    LET b == CHOOSE i \in 1..Len(handle) :
                 IsTerminator(handle[i]) /\ Terminators(i) = j
    IN  IF \E i \in 1..(b - 1) :
               /\ handle[i] = EntryLine
               /\ \A t \in i..(b - 1) : ~IsTerminator(handle[t])
        THEN EntryLine.fields[1] ELSE NewRecord.entry

\* C10, amended: a parse-time error raised while reading one record ends
\* the generator at that line: every record completed before it has been
\* yielded, unchanged, and no line after it is read, so no record after it
\* is yielded.
C10_ParseErrorEndsStream ==
    /\ Len(yielded) = Terminators(lineno)
    /\ \A j \in 1..Len(yielded) : yielded[j].entry = YieldedEntry(j)
    /\ \A i \in 1..lineno :
           Malformed(handle[i]) => gen = "ValueError" /\ lineno = i

\* a record was yielded, the next one failed on its ENTRY line, and the
\* '///' line that ends the handle is never read
C10_Witness ==
    /\ gen = "ValueError"
    /\ Len(yielded) = 1
    /\ yielded[1].entry = EntryLine.fields[1]
    /\ lineno < Len(handle)
    /\ IsTerminator(handle[Len(handle)])
    /\ handle[lineno] = ShortEntryLine

====
